---- MODULE Spec2Model ----
(***************************************************************************)
(* A model of the cryptoTIP RSA engine: the number theory primitives       *)
(* (rsa_math.py), the key generator and the key store (rsa_keys.py), the   *)
(* codec (rsa_codec.py) and the peer-key state of the shell (main.py).     *)
(*                                                                         *)
(* Python integers are unbounded; every bound below keeps the values far   *)
(* inside the checker's integers.                                          *)
(***************************************************************************)
EXTENDS Integers, Sequences, FiniteSets, TLC

VARIABLES
    \* rsa_math: one call of gcd (run loop iteration by loop iteration) or modinv
    mathPc, mathOp, argA, argB, loopA, loopB, mathRes,
    \* rsa_keys.generate_keypair: the bit size asked for, the primes drawn, the result
    genBits, genP, genQ, genRes,
    \* the pow() of rsa_encrypt / rsa_decrypt applied to a bare integer
    powPc, powM, powC, powBack,
    \* main.py: peer_public_key; rsa_codec: the last encrypt and decrypt calls
    peerKey, encText, encKey, encRes, decRes,
    \* the key store: the two artifacts of one user identifier, the calls in flight
    pubFile, privFile, proc, history, calls

mathVars  == <<mathPc, mathOp, argA, argB, loopA, loopB, mathRes>>
genVars   == <<genBits, genP, genQ, genRes>>
powVars   == <<powPc, powM, powC, powBack>>
codecVars == <<peerKey, encText, encKey, encRes, decRes>>
storeVars == <<pubFile, privFile, proc, history, calls>>
vars      == <<mathVars, genVars, powVars, codecVars, storeVars>>

-----------------------------------------------------------------------------
(* Bounds of the model *)

\* gcd is called with arguments in -MaxArg..MaxArg, modinv with 0..MaxArg, 1..MaxArg
MaxArg == 7

\* generate_keypair is asked for MinBits..MaxBits bits (8 is the least it accepts)
MinBits == 7
MaxBits == 13

\* peer public keys (n, e) range over 0..MaxPeerN and 0..MaxPeerE
MaxPeerN == 5
MaxPeerE == 3

\* the codec's own pair has MinBits..MaxCodecBits bits
MaxCodecBits == 10

\* texts hold at most MaxTextBytes bytes of UTF-8
MaxTextBytes == 2

\* the key store is asked for MinBits..MaxStoreBits bits
MaxStoreBits == 10

\* calls of the key store made one after the other, and calls that may overlap
MaxSeqCalls  == 2
MaxRaceCalls == 3

-----------------------------------------------------------------------------
(* Python integer arithmetic *)

\* a % b: the result has the sign of the divisor (b /= 0)
PyMod(a, b) == IF b > 0 THEN a % b ELSE -((-a) % (-b))

\* a // b: floor division (b /= 0)
PyFloorDiv(a, b) == IF b > 0 THEN a \div b ELSE (-a) \div (-b)

Abs(x) == IF x < 0 THEN -x ELSE x

\* d divides x, over the integers (0 divides only 0)
Divides(d, x) == IF d = 0 THEN x = 0 ELSE x % Abs(d) = 0

\* The mathematical greatest common divisor, by definition
MathGcd(a, b) ==
    IF a = 0 /\ b = 0 THEN 0
    ELSE CHOOSE g \in 1..(Abs(a) + Abs(b)) :
            /\ Divides(g, a) /\ Divides(g, b)
            /\ \A h \in (g + 1)..(Abs(a) + Abs(b)) : ~(Divides(h, a) /\ Divides(h, b))

-----------------------------------------------------------------------------
(* rsa_math.py *)

NoResult == [err |-> "pending", val |-> 0]
Ok(v)    == [err |-> "none", val |-> v]
Raise(e) == [err |-> e, val |-> 0]

NoInverse == "ValueError: No modular inverse exists"

\* gcd(a, b) as one value: while b != 0: a, b = b, a % b
RECURSIVE gcd(_, _)
gcd(a, b) == IF b /= 0 THEN gcd(b, PyMod(a, b)) ELSE a

\* extended_gcd after its recursive call returned r = <<g, x1, y1>>: lines 43 to 45
EgcdUnwind(r, a, b) ==
    LET g  == r[1]
        x1 == r[2]
        y1 == r[3]
        x  == y1
        y  == x1 - PyFloorDiv(a, b) * y1
    IN <<g, x, y>>

\* extended_gcd(a, b) -> <<g, x, y>>
RECURSIVE extended_gcd(_, _)
extended_gcd(a, b) ==
    IF b = 0 THEN <<a, 1, 0>> ELSE EgcdUnwind(extended_gcd(b, PyMod(a, b)), a, b)

\* modinv with the final reduction left out
modinv_unreduced(a, m) ==
    LET r == extended_gcd(a, m)
    IN IF r[1] /= 1 THEN Raise(NoInverse) ELSE Ok(r[2])

\* modinv(a, m)
modinv(a, m) ==
    LET r == extended_gcd(a, m)
        g == r[1]
        x == r[2]
    IN IF g /= 1 THEN Raise(NoInverse) ELSE Ok(PyMod(x, m))

\* gcd(a, b) is entered
CallGcd(a, b) ==
    /\ mathPc = "idle"
    /\ mathOp' = "gcd"
    /\ argA' = a /\ argB' = b
    /\ loopA' = a /\ loopB' = b
    /\ mathPc' = "gcd_loop"
    /\ UNCHANGED mathRes
    /\ UNCHANGED <<genVars, powVars, codecVars, storeVars>>

\* one iteration of gcd's while loop
GcdStep ==
    /\ mathPc = "gcd_loop"
    /\ loopB /= 0
    /\ loopA' = loopB
    /\ loopB' = PyMod(loopA, loopB)
    /\ UNCHANGED <<mathPc, mathOp, argA, argB, mathRes>>
    /\ UNCHANGED <<genVars, powVars, codecVars, storeVars>>

\* the loop condition fails: return a
GcdReturn ==
    /\ mathPc = "gcd_loop"
    /\ loopB = 0
    /\ mathRes' = Ok(loopA)
    /\ mathPc' = "done"
    /\ UNCHANGED <<mathOp, argA, argB, loopA, loopB>>
    /\ UNCHANGED <<genVars, powVars, codecVars, storeVars>>

\* modinv(a, m), from call to return or raise
CallModinv(a, m) ==
    /\ mathPc = "idle"
    /\ mathOp' = "modinv"
    /\ argA' = a /\ argB' = m
    /\ mathRes' = modinv(a, m)
    /\ mathPc' = "done"
    /\ UNCHANGED <<loopA, loopB>>
    /\ UNCHANGED <<genVars, powVars, codecVars, storeVars>>

MathInit ==
    /\ mathPc = "idle" /\ mathOp = "none"
    /\ argA = 0 /\ argB = 0 /\ loopA = 0 /\ loopB = 0
    /\ mathRes = NoResult

MathNext ==
    \/ \E a \in -MaxArg..MaxArg, b \in -MaxArg..MaxArg : CallGcd(a, b)
    \/ GcdStep
    \/ GcdReturn
    \/ \E a \in 0..MaxArg, m \in 1..MaxArg : CallModinv(a, m)

-----------------------------------------------------------------------------
(* rsa_math.py: primes *)

\* math.isqrt(n)
isqrt(n) == CHOOSE r \in 0..n : r * r <= n /\ (r + 1) * (r + 1) > n

\* is_prime(n): trial division by the odd numbers up to isqrt(n)
is_prime(n) ==
    IF n <= 1 THEN FALSE
    ELSE IF n <= 3 THEN TRUE
    ELSE IF n % 2 = 0 THEN FALSE
    ELSE \A i \in 3..isqrt(n) : (i % 2 = 1) => (n % i /= 0)

\* the candidate generate_prime builds from the random bits r:
\* (r | 1) | (1 << (bits - 1))
Candidate(r, bits) ==
    LET odd == IF r % 2 = 0 THEN r + 1 ELSE r
        top == 2 ^ (bits - 1)
    IN IF odd < top THEN odd + top ELSE odd

\* the values generate_prime(bits) can return (bits >= 2): it resamples until
\* is_prime accepts the candidate
generate_prime(bits) ==
    { c \in { Candidate(r, bits) : r \in 0..(2 ^ bits - 1) } : is_prime(c) }

-----------------------------------------------------------------------------
(* rsa_keys.py: generate_keypair *)

FixedE == 65537

NoKeys    == <<<<0, 0>>, <<0, 0>>>>
NoKeysRes == [err |-> "pending", val |-> NoKeys]
OkKeys(k) == [err |-> "none", val |-> k]
RaiseKeys(e) == [err |-> e, val |-> NoKeys]

KeyTooSmall == "ValueError: Key size is too small"
NoExponent  == "ValueError: Failed to find a suitable public exponent e"

\* e = 3; while e < phi and gcd(e, phi) != 1: e += 2
RECURSIVE ExponentSearch(_, _)
ExponentSearch(e, phi) ==
    IF e < phi /\ gcd(e, phi) /= 1 THEN ExponentSearch(e + 2, phi) ELSE e

\* generate_keypair with the totient taken as (p - 1) * q
KeyFromPrimesWrongPhi(p, q) ==
    LET n   == p * q
        phi == (p - 1) * q
        e   == IF gcd(FixedE, phi) /= 1 THEN ExponentSearch(3, phi) ELSE FixedE
        d   == modinv(e, phi)
    IN IF gcd(e, phi) /= 1 THEN RaiseKeys(NoExponent)
       ELSE IF d.err /= "none" THEN RaiseKeys(d.err)
       ELSE OkKeys(<<<<n, e>>, <<n, d.val>>>>)

\* generate_keypair from the primes p and q it drew, lines 69 to 90
KeyFromPrimes(p, q) ==
    LET n   == p * q
        phi == (p - 1) * (q - 1)
        e   == IF gcd(FixedE, phi) /= 1 THEN ExponentSearch(3, phi) ELSE FixedE
        d   == modinv(e, phi)
    IN IF gcd(e, phi) /= 1 THEN RaiseKeys(NoExponent)
       ELSE IF d.err /= "none" THEN RaiseKeys(d.err)
       ELSE OkKeys(<<<<n, e>>, <<n, d.val>>>>)

\* the pairs of primes generate_keypair(bits) can draw: q is redrawn while q == p
PrimePairs(bits) ==
    LET half == bits \div 2
    IN { pq \in generate_prime(half) \X generate_prime(half) : pq[1] /= pq[2] }

\* the results generate_keypair(bits) can have
generate_keypair(bits) ==
    IF bits < 8 THEN { RaiseKeys(KeyTooSmall) }
    ELSE { KeyFromPrimes(pq[1], pq[2]) : pq \in PrimePairs(bits) }

\* generate_keypair(bits), from call to return or raise
GenerateKeypair(bits) ==
    /\ genRes = NoKeysRes
    /\ genBits' = bits
    /\ IF bits < 8
       THEN /\ genRes' = RaiseKeys(KeyTooSmall)
            /\ UNCHANGED <<genP, genQ>>
       ELSE \E pq \in PrimePairs(bits) :
            /\ genP' = pq[1]
            /\ genQ' = pq[2]
            /\ genRes' = KeyFromPrimes(pq[1], pq[2])
    /\ UNCHANGED <<mathVars, powVars, codecVars, storeVars>>

GenInit == genBits = 0 /\ genP = 0 /\ genQ = 0 /\ genRes = NoKeysRes

HaveKeys == genRes.err = "none"
PublicKey  == genRes.val[1]
PrivateKey == genRes.val[2]

-----------------------------------------------------------------------------
(* pow(base, exp, mod) for exp >= 0 and mod >= 1, by square and multiply *)

\* one round: the square of the power h of the upper bits, times b on a set bit
PowRound(h, b, e, n) == IF e % 2 = 1 THEN (((h * h) % n) * (b % n)) % n ELSE (h * h) % n

RECURSIVE pow(_, _, _)
pow(b, e, n) == IF e = 0 THEN 1 % n ELSE PowRound(pow(b, e \div 2, n), b, e, n)

\* c = m^e mod n on an integer message m of [0, n): rsa_encrypt, line 102
PowEncrypt ==
    /\ HaveKeys
    /\ powPc = "idle"
    /\ \E m \in 0..(PublicKey[1] - 1) :
        /\ powM' = m
        /\ powC' = pow(m, PublicKey[2], PublicKey[1])
    /\ powPc' = "encrypted"
    /\ UNCHANGED powBack
    /\ UNCHANGED <<mathVars, genVars, codecVars, storeVars>>

\* m = c^d mod n: rsa_decrypt, line 121
PowDecrypt ==
    /\ HaveKeys
    /\ powPc = "encrypted"
    /\ powBack' = pow(powC, PrivateKey[2], PrivateKey[1])
    /\ powPc' = "decrypted"
    /\ UNCHANGED <<powM, powC>>
    /\ UNCHANGED <<mathVars, genVars, codecVars, storeVars>>

PowInit == powPc = "idle" /\ powM = 0 /\ powC = 0 /\ powBack = 0

KeygenNext ==
    \/ \E bits \in MinBits..MaxBits : GenerateKeypair(bits)
    \/ PowEncrypt
    \/ PowDecrypt

-----------------------------------------------------------------------------
(* rsa_codec.py: a text is a sequence of Unicode code points *)

\* the code points of the texts: U+0000, U+0002, U+0003 and U+00E9 (two bytes)
Alphabet == {0, 2, 3, 233}

\* str.encode("utf-8") of one code point (no surrogates in Alphabet)
EncodeChar(cp) ==
    IF cp < 128 THEN <<cp>>
    ELSE IF cp < 2048 THEN <<192 + (cp \div 64), 128 + (cp % 64)>>
    ELSE IF cp < 65536
    THEN <<224 + (cp \div 4096), 128 + ((cp \div 64) % 64), 128 + (cp % 64)>>
    ELSE <<240 + (cp \div 262144), 128 + ((cp \div 4096) % 64),
           128 + ((cp \div 64) % 64), 128 + (cp % 64)>>

\* message.encode("utf-8")
RECURSIVE EncodeUtf8(_)
EncodeUtf8(t) == IF t = <<>> THEN <<>> ELSE EncodeChar(Head(t)) \o EncodeUtf8(Tail(t))

\* int.from_bytes(bs, byteorder="big")
RECURSIVE from_bytes(_)
from_bytes(bs) ==
    IF bs = <<>> THEN 0
    ELSE 256 * from_bytes(SubSeq(bs, 1, Len(bs) - 1)) + bs[Len(bs)]

\* int.bit_length()
RECURSIVE bit_length(_)
bit_length(m) == IF m = 0 THEN 0 ELSE 1 + bit_length(m \div 2)

\* m.to_bytes(k, byteorder="big"), for m < 256^k
RECURSIVE to_bytes(_, _)
to_bytes(m, k) == IF k = 0 THEN <<>> ELSE Append(to_bytes(m \div 256, k - 1), m % 256)

IsCont(b) == 128 <= b /\ b <= 191

DecodeError == "UnicodeDecodeError"
OkText(t)   == [err |-> "none", val |-> t]
RaiseText(e) == [err |-> e, val |-> <<>>]
NoTextRes   == [err |-> "pending", val |-> <<>>]

\* bytes.decode("utf-8") from position i on, acc the code points decoded so far
RECURSIVE DecodeFrom(_, _, _)
DecodeFrom(bs, i, acc) ==
    IF i > Len(bs) THEN OkText(acc)
    ELSE LET b  == bs[i]
             ct(k) == i + k <= Len(bs) /\ IsCont(bs[i + k])
             lo2 == IF b = 224 THEN 160 ELSE IF b = 240 THEN 144 ELSE 128
             hi2 == IF b = 237 THEN 159 ELSE IF b = 244 THEN 143 ELSE 191
             in2 == i + 1 <= Len(bs) /\ lo2 <= bs[i + 1] /\ bs[i + 1] <= hi2
         IN IF b < 128 THEN DecodeFrom(bs, i + 1, Append(acc, b))
            ELSE IF 194 <= b /\ b <= 223
            THEN IF ct(1)
                 THEN DecodeFrom(bs, i + 2, Append(acc, (b - 192) * 64 + (bs[i + 1] - 128)))
                 ELSE RaiseText(DecodeError)
            ELSE IF 224 <= b /\ b <= 239
            THEN IF in2 /\ ct(2)
                 THEN DecodeFrom(bs, i + 3,
                        Append(acc, (b - 224) * 4096 + (bs[i + 1] - 128) * 64
                                    + (bs[i + 2] - 128)))
                 ELSE RaiseText(DecodeError)
            ELSE IF 240 <= b /\ b <= 244
            THEN IF in2 /\ ct(2) /\ ct(3)
                 THEN DecodeFrom(bs, i + 4,
                        Append(acc, (b - 240) * 262144 + (bs[i + 1] - 128) * 4096
                                    + (bs[i + 2] - 128) * 64 + (bs[i + 3] - 128)))
                 ELSE RaiseText(DecodeError)
            ELSE RaiseText(DecodeError)

\* message_bytes.decode("utf-8")
DecodeUtf8(bs) == DecodeFrom(bs, 1, <<>>)

TooLarge == "ValueError: Message too large for the key size."

\* rsa_encrypt accepting a message equal to the modulus
rsa_encrypt_off_by_one(message, public_key) ==
    LET n == public_key[1]
        e == public_key[2]
        message_int == from_bytes(EncodeUtf8(message))
    IN IF message_int > n \/ n < 1 THEN Raise(TooLarge) ELSE Ok(pow(message_int, e, n))

\* rsa_encrypt(message, public_key)
rsa_encrypt(message, public_key) ==
    LET n == public_key[1]
        e == public_key[2]
        message_int == from_bytes(EncodeUtf8(message))
    IN IF message_int >= n THEN Raise(TooLarge) ELSE Ok(pow(message_int, e, n))

\* rsa_decrypt(ciphertext, private_key)
rsa_decrypt(ciphertext, private_key) ==
    LET n == private_key[1]
        d == private_key[2]
        message_int   == pow(ciphertext, d, n)
        message_bytes == to_bytes(message_int, (bit_length(message_int) + 7) \div 8)
    IN DecodeUtf8(message_bytes)

\* the texts of the model
Texts ==
    { t \in UNION { [1..k -> Alphabet] : k \in 0..MaxTextBytes } :
        Len(EncodeUtf8(t)) <= MaxTextBytes }

NoPeer == <<>>

\* main.py set_peer_public_key: the shell stores the key a peer sent. encText,
\* encKey, encRes and decRes hold the last codec request and its answer, which
\* the answer to this request replaces
SetPeerPublicKey(n, e) ==
    /\ peerKey' = <<n, e>>
    /\ encText' = <<>> /\ encKey' = NoPeer
    /\ encRes' = NoResult /\ decRes' = NoTextRes
    /\ UNCHANGED <<mathVars, genVars, powVars, storeVars>>

\* set_peer_public_key with this instance's own public key
SetOwnPublicKey ==
    /\ HaveKeys
    /\ peerKey' = PublicKey
    /\ encText' = <<>> /\ encKey' = NoPeer
    /\ encRes' = NoResult /\ decRes' = NoTextRes
    /\ UNCHANGED <<mathVars, genVars, powVars, storeVars>>

\* rsa_encrypt(t, peer_public_key), from call to return or raise
RsaEncrypt(t) ==
    /\ peerKey /= NoPeer
    /\ encText' = t
    /\ encKey' = peerKey
    /\ encRes' = rsa_encrypt(t, peerKey)
    /\ decRes' = NoTextRes
    /\ UNCHANGED peerKey
    /\ UNCHANGED <<mathVars, genVars, powVars, storeVars>>

\* rsa_decrypt of the last ciphertext with the local private key
RsaDecrypt ==
    /\ HaveKeys
    /\ encRes.err = "none"
    /\ decRes = NoTextRes
    /\ decRes' = rsa_decrypt(encRes.val, PrivateKey)
    /\ UNCHANGED <<peerKey, encText, encKey, encRes>>
    /\ UNCHANGED <<mathVars, genVars, powVars, storeVars>>

CodecInit ==
    /\ peerKey = NoPeer
    /\ encText = <<>> /\ encKey = NoPeer
    /\ encRes = NoResult /\ decRes = NoTextRes

CodecNext ==
    \/ \E bits \in MinBits..MaxCodecBits : GenerateKeypair(bits)
    \/ \E n \in 0..MaxPeerN, e \in 0..MaxPeerE : SetPeerPublicKey(n, e)
    \/ SetOwnPublicKey
    \/ \E t \in Texts : RsaEncrypt(t)
    \/ RsaDecrypt

-----------------------------------------------------------------------------
(* rsa_keys.py: the key artifacts. A file is the sequence of its lines, a    *)
(* line the sequence of its characters (without the line terminator).        *)

Procs == {1, 2}

DigitChars == <<"0", "1", "2", "3", "4", "5", "6", "7", "8", "9">>

IsDigit(c) == \E i \in 1..10 : DigitChars[i] = c
DigitVal(c) == (CHOOSE i \in 1..10 : DigitChars[i] = c) - 1

\* f"{n}" for an integer n
RECURSIVE DecDigits(_)
DecDigits(n) ==
    IF n < 10 THEN <<DigitChars[n + 1]>>
    ELSE Append(DecDigits(n \div 10), DigitChars[(n % 10) + 1])

DecStr(n) == IF n < 0 THEN <<"-">> \o DecDigits(-n) ELSE DecDigits(n)

\* the artifact text with the two numbers of the key in the wrong order
FormatKeySwapped(key) == <<DecStr(key[2]), DecStr(key[1])>>

\* f"{n}\n{e}\n" as lines
FormatKey(key) == <<DecStr(key[1]), DecStr(key[2])>>

\* str.strip()
RECURSIVE StripLeft(_)
StripLeft(l) == IF l /= <<>> /\ Head(l) = " " THEN StripLeft(Tail(l)) ELSE l
RECURSIVE StripRight(_)
StripRight(l) ==
    IF l /= <<>> /\ l[Len(l)] = " " THEN StripRight(SubSeq(l, 1, Len(l) - 1)) ELSE l
Strip(l) == StripRight(StripLeft(l))

\* [line.strip() for line in f.readlines() if line.strip()]
RECURSIVE StrippedLines(_)
StrippedLines(ls) ==
    IF ls = <<>> THEN <<>>
    ELSE IF Strip(Head(ls)) = <<>> THEN StrippedLines(Tail(ls))
    ELSE <<Strip(Head(ls))>> \o StrippedLines(Tail(ls))

InvalidLiteral == "ValueError: invalid literal for int() with base 10"

\* the value of a string of digits
RECURSIVE DigitsValue(_)
DigitsValue(ds) ==
    IF ds = <<>> THEN 0
    ELSE 10 * DigitsValue(SubSeq(ds, 1, Len(ds) - 1)) + DigitVal(ds[Len(ds)])

AllDigits(ds) == ds /= <<>> /\ \A i \in 1..Len(ds) : IsDigit(ds[i])

\* int(s) of a stripped line: an optional sign, then digits
ParseInt(s) ==
    LET signed == s /= <<>> /\ (Head(s) = "-" \/ Head(s) = "+")
        body   == IF signed THEN Tail(s) ELSE s
    IN IF ~AllDigits(body) THEN Raise(InvalidLiteral)
       ELSE IF signed /\ Head(s) = "-" THEN Ok(-DigitsValue(body))
       ELSE Ok(DigitsValue(body))

Absent      == [exists |-> FALSE, lines |-> <<>>]
File(ls)    == [exists |-> TRUE, lines |-> ls]

NotFound        == "FileNotFoundError: No key files found"
BadPublicFile   == "ValueError: Invalid public key file format"
BadPrivateFile  == "ValueError: Invalid private key file format"
ModulusMismatch == "ValueError: Public and private key modulus (n) do not match."
SaveMismatch    == "ValueError: Public and private keys do not share the same modulus n."

NoPair       == <<0, 0>>
OkPair(k)    == [err |-> "none", val |-> k]
RaisePair(e) == [err |-> e, val |-> NoPair]

\* load_keys' reading of one artifact: lines 167 to 172, or 175 to 180
ReadKeyFile(file, formatError) ==
    LET lines == StrippedLines(file.lines)
    IN IF Len(lines) < 2 THEN RaisePair(formatError)
       ELSE LET n == ParseInt(lines[1])
                x == ParseInt(lines[2])
            IN IF n.err /= "none" THEN RaisePair(n.err)
               ELSE IF x.err /= "none" THEN RaisePair(x.err)
               ELSE OkPair(<<n.val, x.val>>)

\* keys_exist(user_id)
keys_exist(pub, priv) == pub.exists /\ priv.exists

\* the end of load_keys without the comparison of the two moduli
LoadKeysTailUnchecked(a, priv) ==
    LET b == ReadKeyFile(priv, BadPrivateFile)
    IN IF b.err /= "none" THEN RaiseKeys(b.err) ELSE OkKeys(<<a.val, b.val>>)

\* load_keys' end, from the public key already read (a) and the private
\* artifact: lines 175 to 188
LoadKeysTail(a, priv) ==
    LET b == ReadKeyFile(priv, BadPrivateFile)
    IN IF b.err /= "none" THEN RaiseKeys(b.err)
       ELSE IF a.val[1] /= b.val[1] THEN RaiseKeys(ModulusMismatch)
       ELSE OkKeys(<<a.val, b.val>>)

\* load_keys(user_id) when nothing writes the artifacts during the call
load_keys(pub, priv) ==
    IF ~pub.exists \/ ~priv.exists THEN RaiseKeys(NotFound)
    ELSE LET a == ReadKeyFile(pub, BadPublicFile)
         IN IF a.err /= "none" THEN RaiseKeys(a.err) ELSE LoadKeysTail(a, priv)

-----------------------------------------------------------------------------
(* rsa_keys.py: the calls of the key store, statement by statement.          *)
(* proc[p] is the call process p is in; history lists the completed calls.   *)

Idle ==
    [pc |-> "idle", op |-> "none", bits |-> 0, keys |-> NoKeys,
     pubRead |-> NoPair, generated |-> FALSE, after |-> 0,
     pub0 |-> Absent, priv0 |-> Absent]

Running(p) == proc[p].pc /= "idle"

\* the call of process p ends with result res
Complete(p, res, pubNow, privNow) ==
    /\ proc' = [proc EXCEPT ![p] = Idle]
    /\ history' = Append(history,
            [op |-> proc[p].op, bits |-> proc[p].bits, res |-> res,
             generated |-> proc[p].generated, after |-> proc[p].after,
             pub0 |-> proc[p].pub0, priv0 |-> proc[p].priv0,
             pub1 |-> pubNow, priv1 |-> privNow])

\* process p enters get_or_create_keys(user_id, bits) or load_keys(user_id)
\* (which takes no bits: 0)
Call(p, op, bits) ==
    /\ ~Running(p)
    /\ calls' = calls + 1
    /\ proc' = [proc EXCEPT ![p] =
            [Idle EXCEPT !.pc = IF op = "load_keys" THEN "load_pub" ELSE "check",
                         !.op = op, !.bits = bits, !.after = Len(history),
                         !.pub0 = pubFile, !.priv0 = privFile]]
    /\ UNCHANGED <<pubFile, privFile, history>>
    /\ UNCHANGED <<mathVars, genVars, powVars, codecVars>>

\* get_or_create_keys, line 209: if keys_exist(user_id, directory)
KeysExist(p) ==
    /\ proc[p].pc = "check"
    /\ proc' = [proc EXCEPT ![p].pc =
            IF keys_exist(pubFile, privFile) THEN "load_pub" ELSE "generate"]
    /\ UNCHANGED <<pubFile, privFile, history, calls>>
    /\ UNCHANGED <<mathVars, genVars, powVars, codecVars>>

\* get_or_create_keys, line 212: generate_keypair(bits)
Generate(p) ==
    /\ proc[p].pc = "generate"
    /\ \E r \in generate_keypair(proc[p].bits) :
          IF r.err /= "none"
          THEN /\ Complete(p, r, pubFile, privFile)
               /\ UNCHANGED <<pubFile, privFile, calls>>
          ELSE /\ proc' = [proc EXCEPT ![p].pc = "open_pub", ![p].keys = r.val,
                                       ![p].generated = TRUE]
               /\ UNCHANGED <<pubFile, privFile, history, calls>>
    /\ UNCHANGED <<mathVars, genVars, powVars, codecVars>>

\* save_keys, lines 133 to 142: the moduli are compared, then
\* open(public_path, "w") creates or truncates the public artifact
OpenPub(p) ==
    /\ proc[p].pc = "open_pub"
    /\ IF proc[p].keys[1][1] /= proc[p].keys[2][1]
       THEN /\ Complete(p, RaiseKeys(SaveMismatch), pubFile, privFile)
            /\ UNCHANGED <<pubFile, privFile, calls>>
       ELSE /\ pubFile' = File(<<>>)
            /\ proc' = [proc EXCEPT ![p].pc = "write_pub"]
            /\ UNCHANGED <<privFile, history, calls>>
    /\ UNCHANGED <<mathVars, genVars, powVars, codecVars>>

\* save_keys, line 143: the text is written and the file closed
WritePub(p) ==
    /\ proc[p].pc = "write_pub"
    /\ pubFile' = File(FormatKey(proc[p].keys[1]))
    /\ proc' = [proc EXCEPT ![p].pc = "open_priv"]
    /\ UNCHANGED <<privFile, history, calls>>
    /\ UNCHANGED <<mathVars, genVars, powVars, codecVars>>

\* save_keys, line 146: open(private_path, "w")
OpenPriv(p) ==
    /\ proc[p].pc = "open_priv"
    /\ privFile' = File(<<>>)
    /\ proc' = [proc EXCEPT ![p].pc = "write_priv"]
    /\ UNCHANGED <<pubFile, history, calls>>
    /\ UNCHANGED <<mathVars, genVars, powVars, codecVars>>

\* save_keys, line 147, and get_or_create_keys, line 214: the private text is
\* written, the file closed and the generated pair returned
WritePriv(p) ==
    /\ proc[p].pc = "write_priv"
    /\ privFile' = File(FormatKey(proc[p].keys[2]))
    /\ Complete(p, OkKeys(proc[p].keys), pubFile, privFile')
    /\ UNCHANGED <<pubFile, calls>>
    /\ UNCHANGED <<mathVars, genVars, powVars, codecVars>>

\* load_keys, lines 161 to 172: both files must exist, the public one is read
LoadPub(p) ==
    /\ proc[p].pc = "load_pub"
    /\ IF ~pubFile.exists \/ ~privFile.exists
       THEN Complete(p, RaiseKeys(NotFound), pubFile, privFile)
       ELSE LET a == ReadKeyFile(pubFile, BadPublicFile)
            IN IF a.err /= "none"
               THEN Complete(p, RaiseKeys(a.err), pubFile, privFile)
               ELSE /\ proc' = [proc EXCEPT ![p].pc = "load_priv", ![p].pubRead = a.val]
                    /\ UNCHANGED history
    /\ UNCHANGED <<pubFile, privFile, calls>>
    /\ UNCHANGED <<mathVars, genVars, powVars, codecVars>>

\* load_keys, lines 175 to 188: the private file is read, the moduli compared
LoadPriv(p) ==
    /\ proc[p].pc = "load_priv"
    /\ Complete(p, LoadKeysTail(OkPair(proc[p].pubRead), privFile), pubFile, privFile)
    /\ UNCHANGED <<pubFile, privFile, calls>>
    /\ UNCHANGED <<mathVars, genVars, powVars, codecVars>>

\* a statement of a call in flight
Step(p) ==
    \/ KeysExist(p)
    \/ Generate(p)
    \/ OpenPub(p)
    \/ WritePub(p)
    \/ OpenPriv(p)
    \/ WritePriv(p)
    \/ LoadPub(p)
    \/ LoadPriv(p)

\* artifacts a store can hold before the first call
SampleFiles ==
    { <<>>,
      <<DecStr(143)>>,
      <<DecStr(143), DecStr(65537)>>,
      <<DecStr(143), DecStr(113)>>,
      <<<<" ">> \o DecStr(143) \o <<" ">>, <<>>, <<" ", " ">>, DecStr(113)>>,
      <<DecStr(143), <<"x">>, DecStr(113)>>,
      <<<<"x">>, <<"1", "x">>>>,
      <<DecStr(323), DecStr(65537)>>,
      <<DecStr(323), DecStr(113), DecStr(7)>> }

StoreStart ==
    /\ proc = [p \in Procs |-> Idle]
    /\ history = <<>>
    /\ calls = 0

\* any store content, for calls made one after the other
SeqStoreInit ==
    /\ StoreStart
    /\ pubFile \in {Absent} \cup { File(f) : f \in SampleFiles }
    /\ privFile \in {Absent} \cup { File(f) : f \in SampleFiles }

\* an empty store, for calls that overlap
RaceStoreInit ==
    /\ StoreStart
    /\ pubFile = Absent
    /\ privFile = Absent

\* calls one after the other: a call starts when no call is in flight
SeqStoreNext ==
    \/ \E p \in Procs, bits \in MinBits..MaxStoreBits :
            /\ calls < MaxSeqCalls
            /\ \A q \in Procs : ~Running(q)
            /\ Call(p, "get_or_create_keys", bits)
    \/ \E p \in Procs :
            /\ calls < MaxSeqCalls
            /\ \A q \in Procs : ~Running(q)
            /\ Call(p, "load_keys", 0)
    \/ \E p \in Procs : Step(p)

\* processes that start get_or_create_keys at any time
RaceStoreNext ==
    \/ \E p \in Procs, bits \in MinBits..MaxStoreBits :
            /\ calls < MaxRaceCalls
            /\ Call(p, "get_or_create_keys", bits)
    \/ \E p \in Procs : Step(p)

-----------------------------------------------------------------------------
(* Specifications *)

\* the number theory primitives
InitMath == MathInit /\ GenInit /\ PowInit /\ CodecInit /\ RaceStoreInit
SpecMath == InitMath /\ [][MathNext]_vars

\* key generation and the arithmetic of a generated pair
InitKeygen == MathInit /\ GenInit /\ PowInit /\ CodecInit /\ RaceStoreInit
SpecKeygen == InitKeygen /\ [][KeygenNext]_vars

\* the codec with a generated pair and a registered peer key
InitCodec == MathInit /\ GenInit /\ PowInit /\ CodecInit /\ RaceStoreInit
SpecCodec == InitCodec /\ [][CodecNext]_vars

\* the key store, one call after the other
InitStore == MathInit /\ GenInit /\ PowInit /\ CodecInit /\ SeqStoreInit
SpecStore == InitStore /\ [][SeqStoreNext]_vars

\* the key store with overlapping calls
InitRace == MathInit /\ GenInit /\ PowInit /\ CodecInit /\ RaceStoreInit
SpecRace == InitRace /\ [][RaceStoreNext]_vars

-----------------------------------------------------------------------------
(* Properties *)

GcdReturned    == mathPc = "done" /\ mathOp = "gcd"
ModinvReturned == mathPc = "done" /\ mathOp = "modinv"

\* C9: gcd(a, b) returns, for all integers a and b (zero and negative ones
\* included), a non-negative integer that divides both a and b, and
\* gcd(0, 0) = 0. (That the loop ends is GcdTerminates below.)
GcdNonNegativeDivisor ==
    GcdReturned =>
        /\ mathRes.err = "none"
        /\ mathRes.val >= 0
        /\ Divides(mathRes.val, argA)
        /\ Divides(mathRes.val, argB)
        /\ (argA = 0 /\ argB = 0) => mathRes.val = 0

\* gcd's loop ends: the absolute value of b strictly decreases with every
\* iteration
GcdTerminates == [][GcdStep => Abs(loopB') < Abs(loopB)]_vars

KeyMathInvariant == powPc = "decrypted" => powBack = powM

\* a message sharing a factor with n, changed by encryption, came back
NonCoprimeMessageRecovered ==
    /\ powPc = "decrypted"
    /\ powM > 1 /\ powC /= powM
    /\ (powM % genP = 0 \/ powM % genQ = 0)
    /\ powBack = powM

\* C6: every public key (n, e) generate_keypair returns satisfies
\* 1 < e < phi(n), phi(n) = (p - 1) * (q - 1), and gcd(e, phi(n)) = 1
ExponentInvariant ==
    HaveKeys =>
        LET phi == (genP - 1) * (genQ - 1)
            e   == PublicKey[2]
        IN /\ 1 < e
           /\ e < phi
           /\ \A k \in 2..phi : ~(Divides(k, e) /\ Divides(k, phi))

\* the last rsa_encrypt was made with this instance's own public key and its
\* ciphertext has been decrypted with the private key
RoundTripDone == HaveKeys /\ encKey = PublicKey /\ decRes /= NoTextRes

\* C1: for every generated pair and every text t whose integer encoding is
\* below n (the empty text and texts beginning with U+0000 included),
\* rsa_decrypt(rsa_encrypt(t, pub), priv) returns exactly t
RoundTrip == RoundTripDone => decRes = OkText(encText)

\* the integer encoding of the text of the last rsa_encrypt
EncodedMessage == from_bytes(EncodeUtf8(encText))

\* m^e by repeated multiplication
RECURSIVE Power(_, _)
Power(m, e) == IF e = 0 THEN 1 ELSE m * Power(m, e - 1)

\* C7: for every public key (n, e) with n >= 1, rsa_encrypt raises the
\* message-too-large error when the text's integer encoding m is >= n, and
\* for m < n returns c = m^e mod n with 0 <= c < n. (The value of c is
\* compared with m^e computed in full for the exponents up to MaxPeerE.)
CapacityRejection ==
    (encKey /= NoPeer /\ encKey[1] >= 1) =>
        LET n == encKey[1]
            e == encKey[2]
            m == EncodedMessage
        IN IF m >= n THEN encRes = Raise(TooLarge)
           ELSE /\ encRes.err = "none"
                /\ 0 <= encRes.val /\ encRes.val < n
                /\ e <= MaxPeerE => encRes.val = Power(m, e) % n

\* a text whose integer encoding equals the modulus was rejected
MessageEqualToModulusRejected ==
    /\ encKey /= NoPeer /\ encKey[1] >= 1
    /\ EncodedMessage = encKey[1]
    /\ encRes = Raise(TooLarge)

GetOrCreate == "get_or_create_keys"

\* C4: of two get_or_create_keys(id, bits) calls made one after the other
\* (bits >= 8, no other process touching the store, the first call
\* succeeding), the second returns the KeyPair of the first and leaves the
\* persisted artifacts as it found them
StoreIdempotence ==
    \A i \in 1..(Len(history) - 1) :
        LET first  == history[i]
            second == history[i + 1]
        IN (/\ first.op = GetOrCreate /\ second.op = GetOrCreate
            /\ first.bits = second.bits /\ first.bits >= 8
            /\ first.res.err = "none")
           => /\ second.res = first.res
              /\ second.pub1 = second.pub0
              /\ second.priv1 = second.priv0

\* a first call generated and saved a pair over a store that held a public
\* artifact only, and a second call returned the same pair
GeneratedThenLoaded ==
    \E i \in 1..(Len(history) - 1) :
        /\ history[i].op = GetOrCreate /\ history[i + 1].op = GetOrCreate
        /\ history[i].bits = history[i + 1].bits
        /\ history[i].generated /\ ~history[i + 1].generated
        /\ history[i].pub0.exists /\ ~history[i].priv0.exists
        /\ history[i].res.err = "none"
        /\ history[i + 1].res = history[i].res

\* the lines of an artifact that are numbers
NumericLineCount(file) ==
    LET lines == StrippedLines(file.lines)
    IN Cardinality({ i \in 1..Len(lines) : ParseInt(lines[i]).err = "none" })

Malformed == {BadPublicFile, BadPrivateFile, InvalidLiteral}

\* the stripped line l is a numeral of the integer v
Denotes(l, v) == AllDigits(IF Head(l) \in {"-", "+"} THEN Tail(l) ELSE l) /\ ParseInt(l).val = v

\* C8: load_keys returns a KeyPair only when both artifacts are present, each
\* holds at least two numeric lines and the two moduli are equal, and then
\* returns the stored (n, e) and (n, d); it fails with not-found if an
\* artifact is absent, otherwise with a malformed-file error if a present
\* artifact has fewer than two numeric lines, otherwise with
\* mismatched-modulus if the moduli parsed from the two artifacts differ; it
\* never changes an artifact
LoadKeysContract ==
    \A i \in 1..Len(history) :
        LET call == history[i]
            pub  == call.pub0
            priv == call.priv0
            both == pub.exists /\ priv.exists
            few  == NumericLineCount(pub) < 2 \/ NumericLineCount(priv) < 2
            a    == ReadKeyFile(pub, BadPublicFile)
            b    == ReadKeyFile(priv, BadPrivateFile)
        IN call.op = "load_keys" =>
            /\ call.pub1 = pub /\ call.priv1 = priv
            /\ call.res.err = "none" =>
                /\ both /\ ~few
                /\ call.res.val[1][1] = call.res.val[2][1]
                /\ \A k \in 1..2 :
                    /\ Denotes(StrippedLines(pub.lines)[k], call.res.val[1][k])
                    /\ Denotes(StrippedLines(priv.lines)[k], call.res.val[2][k])
            /\ ~both => call.res = RaiseKeys(NotFound)
            /\ (both /\ few) => call.res.err \in Malformed /\ call.res.val = NoKeys
            /\ (both /\ a.err = "none" /\ b.err = "none" /\ a.val[1] /= b.val[1])
                    => call.res = RaiseKeys(ModulusMismatch)

\* load_keys refused two well-formed artifacts whose moduli differ
MismatchRefused ==
    \E i \in 1..Len(history) :
        /\ history[i].op = "load_keys"
        /\ history[i].res = RaiseKeys(ModulusMismatch)
        /\ NumericLineCount(history[i].pub0) >= 2
        /\ NumericLineCount(history[i].priv0) >= 2

\* no call is in flight, and every call made asked for an accepted bit size
Quiescent ==
    /\ \A p \in Procs : ~Running(p)
    /\ \A i \in 1..Len(history) : history[i].bits >= 8

\* C2: once two get_or_create_keys calls started on an empty store have both
\* finished, however their steps interleaved, the persisted artifacts carry
\* the same modulus and come from one generation event, and load_keys succeeds
WritersSerialized ==
    (Quiescent /\ Len(history) >= 2) =>
        /\ load_keys(pubFile, privFile).err = "none"
        /\ \E i \in 1..Len(history) :
            /\ history[i].generated
            /\ pubFile = File(FormatKey(history[i].res.val[1]))
            /\ privFile = File(FormatKey(history[i].res.val[2]))

\* C3: a KeyPair returned by a completed get_or_create_keys call is the
\* KeyPair every later get_or_create_keys call returns, also when the first
\* calls of two processes overlap
StableIdentity ==
    \A i \in 1..Len(history) : \A j \in (i + 1)..Len(history) :
        (history[i].res.err = "none" /\ history[j].after >= i)
            => history[j].res = history[i].res

====
